---- MODULE Spec2Model ----
\* sixaxis-rs: the SixAxis handle (new, open, close, read_axis, read_shoulder,
\* read_button), the reader thread that open() spawns, the Mutex<State> they
\* share, and the record decoder (process_event, process_stick,
\* process_button).
\*
\* Threads are interleaved at the points where they can observe each other:
\* the blocking read_exact, the call of process_event, the Mutex lock and the
\* drop of the MutexGuard.  The host is taken to be little-endian
\* (NativeEndian).
EXTENDS Integers, Sequences, FiniteSets, TLC

\* ------------------------------------------------------------------ bounds

\* The number of reader threads one handle may spawn (successful open calls).
MaxReaders == 2
\* The number of foreground threads that call read_* through &self.
NumCallers == 2

Callers == 1 .. NumCallers

\* ------------------------------------------------------------ public types

Axis == {"LX", "LY", "RX", "RY"}
Shoulder == {"L1", "L2", "R1", "R2"}
Button == {"Square", "Circle", "Triangle", "Cross", "PS", "Start", "Select",
           "LeftStick", "RightStick", "Up", "Down", "Left", "Right",
           "L1", "L2", "R1", "R2"}

\* Result<T>: Ok(v) and Err(e); a panic unwinds instead of returning.
Ok(v) == [tag |-> "Ok", val |-> v]
Err(e) == [tag |-> "Err", err |-> e]
Panic == [tag |-> "Panic"]

\* Values carry their Rust type: i16, u16 and bool are never equal.
I16(v) == [i16 |-> v]
U16(v) == [u16 |-> v]
Bool(b) == [bool |-> b]

\* enum Event
AxisEvent(a, v) == [kind |-> "Axis", ctl |-> a, val |-> I16(v)]
ShoulderEvent(s, v) == [kind |-> "Shoulder", ctl |-> s, val |-> U16(v)]
ButtonEvent(b, v) == [kind |-> "Button", ctl |-> b, val |-> Bool(v)]

\* ------------------------------------------------------------ private data

EVENT_SIZE == 8

EVENT_TYPE_BUTTON == 1
EVENT_TYPE_STICK == 2
EVENT_TYPE_INIT == 128
EVENT_TYPE_INITBUTTON == 129
EVENT_TYPE_INITSTICK == 130

EVENT_STICK_IDX_LX == 0
EVENT_STICK_IDX_LY == 1
EVENT_STICK_IDX_RX == 2
EVENT_STICK_IDX_RY == 3
EVENT_STICK_IDX_L2 == 12
EVENT_STICK_IDX_R2 == 13
EVENT_STICK_IDX_L1 == 14
EVENT_STICK_IDX_R1 == 15

EVENT_BUTTON_IDX_SELECT == 0
EVENT_BUTTON_IDX_LEFTSTICK == 1
EVENT_BUTTON_IDX_RIGHTSTICK == 2
EVENT_BUTTON_IDX_START == 3
EVENT_BUTTON_IDX_UP == 4
EVENT_BUTTON_IDX_RIGHT == 5
EVENT_BUTTON_IDX_DOWN == 6
EVENT_BUTTON_IDX_LEFT == 7
EVENT_BUTTON_IDX_L2 == 8
EVENT_BUTTON_IDX_R2 == 9
EVENT_BUTTON_IDX_L1 == 10
EVENT_BUTTON_IDX_R1 == 11
EVENT_BUTTON_IDX_PS == 16
EVENT_BUTTON_IDX_TRIANGLE == 12
EVENT_BUTTON_IDX_CIRCLE == 13
EVENT_BUTTON_IDX_CROSS == 14
EVENT_BUTTON_IDX_SQUARE == 15

\* ----------------------------------------------------------------- decoder

\* Rust's buf[a..b]: the bytes at offsets a .. b-1.
Slice(buf, a, b) == SubSeq(buf, a + 1, b)

\* byteorder's read_u32 / read_u16 on a little-endian host: they panic when
\* the slice is shorter than the integer.
read_u32(s) ==
    IF Len(s) < 4 THEN Panic
    ELSE Ok(s[1] + 256 * s[2] + 65536 * s[3] + 16777216 * s[4])

read_u16(s) ==
    IF Len(s) < 2 THEN Panic
    ELSE Ok(s[1] + 256 * s[2])

process_stick(ev_idx, value) ==
    LET s_val == IF value >= 32768 THEN value - 65536 ELSE value
    IN  Ok(AxisEvent("LX", 0))

process_button(ev_idx, value) ==
    Ok(ButtonEvent("Start", FALSE))

\* The match on ev_type in process_event.
match_ev_type(ev_type, ev_idx, value) ==
    IF ev_type \in {EVENT_TYPE_STICK, EVENT_TYPE_INITSTICK}
    THEN process_stick(ev_idx, value)
    ELSE IF ev_type \in {EVENT_TYPE_BUTTON, EVENT_TYPE_INITBUTTON}
    THEN process_button(ev_idx, value)
    ELSE Err("UnknownError")

\* process_event with a timestamp check added: a zero timestamp is refused.
process_event_checks_timestamp(buf) ==
    IF Slice(buf, 0, 4) = <<0, 0, 0, 0>> THEN Err("UnknownError") ELSE Panic

process_event(buf) ==
    LET timestamp == read_u32(Slice(buf, 0, 3))
        value == read_u16(Slice(buf, 4, 5))
        ev_type == buf[7]
        ev_idx == buf[8]
    IN  IF timestamp.tag = "Panic" THEN Panic
        ELSE IF value.tag = "Panic" THEN Panic
        ELSE match_ev_type(ev_type, ev_idx, value.val)

\* ------------------------------------------------------------------ inputs

\* An 8-byte record as the device writes it: timestamp, value, type, index.
Rec(ts, value, type, idx) ==
    << ts % 256, (ts \div 256) % 256, (ts \div 65536) % 256, ts \div 16777216,
       value % 256, value \div 256, type, idx >>

\* The records the input source may deliver: a stick record (LX, 0x8000), a
\* button record (PS pressed) and a record with the unmapped type tag 200.
Records == { Rec(0, 32768, EVENT_TYPE_STICK, 0),
             Rec(0, 1, EVENT_TYPE_BUTTON, 16),
             Rec(0, 0, 200, 0) }

\* The controls the foreground callers query: one per read_* function.
ReadReqs == { <<"axis", "LX">>, <<"shoulder", "L2">>, <<"button", "Start">> }

\* ------------------------------------------------------------------- state

VARIABLES
    child,      \* SixAxis.child: 0 for None, else the index in rd of the thread
    rd,         \* the reader threads spawned so far, in spawn order
    state,      \* the State inside the Mutex: axes, shoulders, buttons
    lock,       \* the Mutex: <<>> when free, else the thread holding the guard
    poisoned,   \* the Mutex's poison flag
    cl,         \* the foreground callers of read_*
    api,        \* the last open / close call and what it returned
    applied     \* history: the controls some event was ever applied to

vars == <<child, rd, state, lock, poisoned, cl, api, applied>>

Free == <<>>
ReaderT(r) == <<"reader", r>>
CallerT(c) == <<"caller", c>>

NoBuf == <<>>
NoEv == [tag |-> "None"]
NoRes == [tag |-> "None"]

\* HashMap::new(), insert and get, on maps held as functions.
EmptyMap == << >>

\* entry(k).or_insert(v) in the place of insert(k, v): the first value stays.
insert_keeps_first(m, k, v) ==
    [x \in (DOMAIN m) \cup {k} |-> IF x \in DOMAIN m THEN m[x] ELSE v]

insert(m, k, v) == [x \in (DOMAIN m) \cup {k} |-> IF x = k THEN v ELSE m[x]]
get(m, k) == IF k \in DOMAIN m THEN [tag |-> "Some", val |-> m[k]] ELSE [tag |-> "None"]

State_new == [axes |-> EmptyMap, shoulders |-> EmptyMap, buttons |-> EmptyMap]

IdleCaller == [pc |-> "idle", kind |-> "none", ctl |-> "none", res |-> NoRes]

\* SixAxis::new
Init ==
    /\ child = 0
    /\ rd = << >>
    /\ state = State_new
    /\ lock = Free
    /\ poisoned = FALSE
    /\ cl = [c \in Callers |-> IdleCaller]
    /\ api = [op |-> "new", res |-> Ok("unit")]
    /\ applied = {}

\* ----------------------------------------------------- the SixAxis handle

\* impl From<std::io::Error> for Error
From_io_Error(e) == "IOError"

\* What fs::File::open gives: the device is there, or it is not.
FileOpen == { Ok("file"), Err("NotFound") }

NewReader == [pc |-> "read", src |-> "open", buf |-> NoBuf, ev |-> NoEv]

\* SixAxis::open.  It takes &mut self, so no read_* call is in progress.  The
\* model stops spawning threads at MaxReaders.
Open ==
    /\ \A c \in Callers : cl[c].pc = "idle"
    /\ \E f \in FileOpen :
         IF f.tag = "Err"
         THEN /\ api' = [op |-> "open", res |-> Err(From_io_Error(f.err))]
              /\ UNCHANGED <<child, rd>>
         ELSE /\ Len(rd) < MaxReaders
              /\ rd' = Append(rd, NewReader)
              /\ child' = Len(rd) + 1
              /\ api' = [op |-> "open", res |-> Ok("unit")]
    /\ UNCHANGED <<state, applied, lock, poisoned, cl>>

\* close without the None arm: every close reports NotImplemented.
close_match_no_none_arm(ch) ==
    Err("NotImplemented")

\* The match of SixAxis::close on self.child.
close_match(ch) ==
    IF ch = 0 THEN Err("NotOpen") ELSE Err("NotImplemented")

\* SixAxis::close
Close ==
    /\ \A c \in Callers : cl[c].pc = "idle"
    /\ api' = [op |-> "close", res |-> close_match(child)]
    /\ UNCHANGED <<child, rd, state, applied, lock, poisoned, cl>>

\* ------------------------------------------------------- the reader thread

\* f.read_exact(&mut buf) returns Ok: the source delivered a full record.
ReadOk(r) ==
    /\ rd[r].pc = "read"
    /\ rd[r].src = "open"
    /\ \E b \in Records :
         rd' = [rd EXCEPT ![r].pc = "decode", ![r].buf = b]
    /\ UNCHANGED <<child, state, applied, lock, poisoned, cl, api>>

\* The loop with `Err(_) => continue`: the thread reads again after a failure.
ReadFail_retries(r) ==
    /\ rd[r].pc = "read"
    /\ rd' = [rd EXCEPT ![r].src = "failed"]
    /\ UNCHANGED <<child, state, applied, lock, poisoned, cl, api>>

\* f.read_exact(&mut buf) returns Err (short read, I/O error, end of stream):
\* the loop breaks and the thread ends.
ReadFail(r) ==
    /\ rd[r].pc = "read"
    /\ rd' = [rd EXCEPT ![r].pc = "exited", ![r].src = "failed"]
    /\ UNCHANGED <<child, state, applied, lock, poisoned, cl, api>>

\* The reader with the outcome of process_event(&buf) in hand: a panic ends
\* the thread, a Result goes on to the lock.
Decoded(r, out) ==
    rd' = [rd EXCEPT ![r].pc = IF out.tag = "Panic" THEN "panicked" ELSE "lock",
                     ![r].buf = NoBuf,
                     ![r].ev = IF out.tag = "Panic" THEN NoEv ELSE out]

\* let ev = process_event(&buf);
Decode(r) ==
    /\ rd[r].pc = "decode"
    /\ Decoded(r, process_event(rd[r].buf))
    /\ UNCHANGED <<child, state, applied, lock, poisoned, cl, api>>

\* The reader going on without waiting for the Mutex to be free.
ReaderLock_no_wait(r) ==
    /\ rd[r].pc = "lock"
    /\ rd' = [rd EXCEPT ![r].pc = "apply"]
    /\ lock' = ReaderT(r)
    /\ UNCHANGED <<child, state, applied, poisoned, cl, api>>

\* let mut state = state_ref.lock().unwrap(); the thread waits while the
\* Mutex is held, and unwrap panics on a poisoned Mutex.
ReaderLock(r) ==
    /\ rd[r].pc = "lock"
    /\ lock = Free
    /\ IF poisoned
       THEN /\ rd' = [rd EXCEPT ![r].pc = "panicked", ![r].ev = NoEv]
            /\ UNCHANGED lock
       ELSE /\ rd' = [rd EXCEPT ![r].pc = "apply"]
            /\ lock' = ReaderT(r)
    /\ UNCHANGED <<child, state, applied, poisoned, cl, api>>

\* The match on ev under the lock: the insert into the event's map.
apply(st, ev) ==
    IF ev.tag # "Ok" THEN st
    ELSE IF ev.val.kind = "Axis"
         THEN [st EXCEPT !.axes = insert(st.axes, ev.val.ctl, ev.val.val)]
    ELSE IF ev.val.kind = "Shoulder"
         THEN [st EXCEPT !.shoulders = insert(st.shoulders, ev.val.ctl, ev.val.val)]
    ELSE [st EXCEPT !.buttons = insert(st.buttons, ev.val.ctl, ev.val.val)]

\* The control an event is for, as the key read_* is asked for.
touched(ev) ==
    IF ev.tag # "Ok" THEN {}
    ELSE IF ev.val.kind = "Axis" THEN { <<"axis", ev.val.ctl>> }
    ELSE IF ev.val.kind = "Shoulder" THEN { <<"shoulder", ev.val.ctl>> }
    ELSE { <<"button", ev.val.ctl>> }

\* The loop with the guard bound outside it: the arm runs, the lock stays held.
ReaderApply_keeps_guard(r) ==
    /\ rd[r].pc = "apply"
    /\ lock = ReaderT(r)
    /\ state' = apply(state, rd[r].ev)
    /\ applied' = applied \cup touched(rd[r].ev)
    /\ rd' = [rd EXCEPT ![r].pc = "read", ![r].ev = NoEv]
    /\ UNCHANGED <<child, lock, poisoned, cl, api>>

\* The match arm runs and the guard is dropped at the end of the Ok(_) block.
ReaderApply(r) ==
    /\ rd[r].pc = "apply"
    /\ lock = ReaderT(r)
    /\ state' = apply(state, rd[r].ev)
    /\ applied' = applied \cup touched(rd[r].ev)
    /\ lock' = Free
    /\ rd' = [rd EXCEPT ![r].pc = "read", ![r].ev = NoEv]
    /\ UNCHANGED <<child, poisoned, cl, api>>

\* The loop body with the lock taken before process_event is called: a panic
\* of process_event unwinds through the guard and poisons the Mutex.
ReaderBody_decodes_under_lock(r) ==
    IF rd[r].pc = "decode"
    THEN /\ lock = Free
         /\ Decoded(r, process_event(rd[r].buf))
         /\ poisoned' = (poisoned \/ process_event(rd[r].buf).tag = "Panic")
         /\ UNCHANGED <<child, state, applied, lock, cl, api>>
    ELSE IF rd[r].pc = "lock" THEN ReaderLock(r)
    ELSE IF rd[r].pc = "apply" THEN ReaderApply(r)
    ELSE FALSE

\* The loop body after a successful read: decode, lock, apply.
ReaderBody(r) ==
    IF rd[r].pc = "decode" THEN Decode(r)
    ELSE IF rd[r].pc = "lock" THEN ReaderLock(r)
    ELSE IF rd[r].pc = "apply" THEN ReaderApply(r)
    ELSE FALSE

\* ---------------------------------------------------- the foreground reads

\* A thread enters read_axis, read_shoulder or read_button.
Call(c) ==
    /\ cl[c].pc = "idle"
    /\ \E q \in ReadReqs :
         cl' = [cl EXCEPT ![c] = [pc |-> "lock", kind |-> q[1], ctl |-> q[2],
                                  res |-> NoRes]]
    /\ UNCHANGED <<child, rd, state, applied, lock, poisoned, api>>

\* read_* going on to its lookup without waiting for the Mutex to be free.
CallerLock_no_wait(c) ==
    /\ cl[c].pc = "lock"
    /\ cl' = [cl EXCEPT ![c].pc = "get"]
    /\ lock' = CallerT(c)
    /\ UNCHANGED <<child, rd, state, applied, poisoned, api>>

\* let state = self.state.lock().unwrap();
CallerLock(c) ==
    /\ cl[c].pc = "lock"
    /\ lock = Free
    /\ IF poisoned
       THEN /\ cl' = [cl EXCEPT ![c].pc = "panicked"]
            /\ UNCHANGED lock
       ELSE /\ cl' = [cl EXCEPT ![c].pc = "get"]
            /\ lock' = CallerT(c)
    /\ UNCHANGED <<child, rd, state, applied, poisoned, api>>

\* read_axis with a wrong default for an axis that never reported.
read_axis_wrong_default(st, axis) ==
    LET g == get(st.axes, axis)
    IN  IF g.tag = "Some" THEN Ok(g.val) ELSE Ok(I16(-1))

read_axis(st, axis) ==
    LET g == get(st.axes, axis)
    IN  IF g.tag = "Some" THEN Ok(g.val) ELSE Ok(I16(0))

read_shoulder(st, shoulder) ==
    LET g == get(st.shoulders, shoulder)
    IN  IF g.tag = "Some" THEN Ok(g.val) ELSE Ok(U16(0))

read_button(st, button) ==
    LET g == get(st.buttons, button)
    IN  IF g.tag = "Some" THEN Ok(g.val) ELSE Ok(Bool(FALSE))

\* What a read_* call of the given kind returns on the State st.
read(st, kind, ctl) ==
    IF kind = "axis" THEN read_axis(st, ctl)
    ELSE IF kind = "shoulder" THEN read_shoulder(st, ctl)
    ELSE read_button(st, ctl)

\* The lookup under the lock; the guard is dropped when the call returns.
CallerGet(c) ==
    /\ cl[c].pc = "get"
    /\ lock = CallerT(c)
    /\ cl' = [cl EXCEPT ![c].pc = "idle",
                        ![c].res = read(state, cl[c].kind, cl[c].ctl)]
    /\ lock' = Free
    /\ UNCHANGED <<child, rd, state, applied, poisoned, api>>

\* ----------------------------------------------------------- specification

Readers == DOMAIN rd

Next ==
    \/ Open
    \/ Close
    \/ \E r \in Readers : ReadOk(r)
    \/ \E r \in Readers : ReadFail(r)
    \/ \E r \in Readers : ReaderBody(r)
    \/ \E c \in Callers : Call(c)
    \/ \E c \in Callers : CallerLock(c)
    \/ \E c \in Callers : CallerGet(c)

Spec == Init /\ [][Next]_vars

\* Scheduling: a thread that can take a step of its own code takes it, and a
\* thread waiting for the Mutex gets it when it is released again and again.
\* Nothing makes the input source deliver and nothing makes the application
\* call open, close or read_*.
Fair ==
    /\ \A r \in 1 .. MaxReaders : SF_vars(r \in Readers /\ ReaderBody(r))
    /\ \A c \in Callers :
         /\ SF_vars(CallerLock(c))
         /\ WF_vars(CallerGet(c))

FairSpec == Spec /\ Fair

\* -------------------------------------------- the store under any decoder

\* The StateStore side of the reader loop (lock, match, insert, unlock) and of
\* read_*, exercised with every outcome a decoder can hand to the loop: any
\* Event on the controls below, a decode error, and a panic.
StoreEvents ==
    { AxisEvent("LX", -32768), AxisEvent("LX", 32767), AxisEvent("RX", 7),
      ShoulderEvent("L2", 65535), ButtonEvent("Start", TRUE) }

DecoderOutcomes ==
    { Ok(e) : e \in StoreEvents } \cup { Err("UnknownError"), Panic }

\* The reader at its process_event call, with the decoder left open: the call
\* ends in one of the outcomes outs.
DecodeFrom(r, outs) ==
    /\ rd[r].pc = "decode"
    /\ \E out \in outs : Decoded(r, out)
    /\ UNCHANGED <<child, state, applied, lock, poisoned, cl, api>>

DecodeAny(r) == DecodeFrom(r, DecoderOutcomes)

\* The handle after new() and one successful open(): one reader thread.
InitStore ==
    /\ child = 1
    /\ rd = << NewReader >>
    /\ state = State_new
    /\ lock = Free
    /\ poisoned = FALSE
    /\ cl = [c \in Callers |-> IdleCaller]
    /\ api = [op |-> "open", res |-> Ok("unit")]
    /\ applied = {}

NextStore ==
    \/ \E r \in Readers : ReadOk(r)
    \/ \E r \in Readers : ReadFail(r)
    \/ \E r \in Readers : DecodeAny(r)
    \/ \E r \in Readers : ReaderLock(r)
    \/ \E r \in Readers : ReaderApply(r)
    \/ \E c \in Callers : Call(c)
    \/ \E c \in Callers : CallerLock(c)
    \/ \E c \in Callers : CallerGet(c)

SpecStore == InitStore /\ [][NextStore]_vars

\* Scheduling: a thread that can take a step of its own code takes it, and a
\* thread waiting for the Mutex gets it when it is released again and again.
\* Nothing makes the input source deliver (ReadOk, ReadFail) and nothing
\* makes the application call read_*.
FairStore ==
    /\ \A r \in {1} :
         /\ WF_vars(DecodeAny(r))
         /\ SF_vars(ReaderLock(r))
         /\ WF_vars(ReaderApply(r))
    /\ \A c \in Callers :
         /\ SF_vars(CallerLock(c))
         /\ WF_vars(CallerGet(c))

FairSpecStore == SpecStore /\ FairStore

\* The lock protocol alone: the same threads and steps, with one event, a
\* decode error and a panic as decoder outcomes, so that who holds the Mutex
\* is all that varies.
LockOutcomes == { Ok(AxisEvent("LX", 32767)), Err("UnknownError"), Panic }

DecodeLock(r) == DecodeFrom(r, LockOutcomes)

NextLock ==
    \/ \E r \in Readers : ReadOk(r)
    \/ \E r \in Readers : ReadFail(r)
    \/ \E r \in Readers : DecodeLock(r)
    \/ \E r \in Readers : ReaderLock(r)
    \/ \E r \in Readers : ReaderApply(r)
    \/ \E c \in Callers : Call(c)
    \/ \E c \in Callers : CallerLock(c)
    \/ \E c \in Callers : CallerGet(c)

FairLock ==
    /\ \A r \in {1} :
         /\ WF_vars(DecodeLock(r))
         /\ SF_vars(ReaderLock(r))
         /\ WF_vars(ReaderApply(r))
    /\ \A c \in Callers :
         /\ SF_vars(CallerLock(c))
         /\ WF_vars(CallerGet(c))

FairSpecLock == InitStore /\ [][NextLock]_vars /\ FairLock

\* The program with one reader thread spawned: the handle after new() and one
\* successful open(), its reader and the callers of read_*.
NextOne ==
    \/ \E r \in Readers : ReadOk(r)
    \/ \E r \in Readers : ReadFail(r)
    \/ \E r \in Readers : ReaderBody(r)
    \/ \E c \in Callers : Call(c)
    \/ \E c \in Callers : CallerLock(c)
    \/ \E c \in Callers : CallerGet(c)

FairOne ==
    /\ \A r \in {1} : SF_vars(ReaderBody(r))
    /\ \A c \in Callers :
         /\ SF_vars(CallerLock(c))
         /\ WF_vars(CallerGet(c))

FairSpecOne == InitStore /\ [][NextOne]_vars /\ FairOne

\* ------------------------------------------------- the decoder on its own

\* The 16-bit value field of a record (bytes 4 and 5), the u16 that
\* process_event is to hand to process_stick and process_button.
ValueOf(buf) == buf[5] + 256 * buf[6]

\* The records the decoder is tried on: both timestamps, the values at the
\* ends of the i16 range and around zero, every type tag the source names
\* and one it does not, and control indices inside and outside the tables.
DecTimestamps == { 0, 305419896 }
DecValues == { 0, 1, 32767, 32768, 65535 }
DecTypes == { EVENT_TYPE_BUTTON, EVENT_TYPE_STICK, EVENT_TYPE_INIT,
              EVENT_TYPE_INITBUTTON, EVENT_TYPE_INITSTICK, 200 }
DecIdxs == { EVENT_STICK_IDX_LX, EVENT_STICK_IDX_LY, EVENT_STICK_IDX_RY,
             EVENT_BUTTON_IDX_UP, EVENT_STICK_IDX_L2, EVENT_STICK_IDX_R1,
             EVENT_BUTTON_IDX_PS, 17 }

DecRecords ==
    { Rec(ts, v, t, i) : ts \in DecTimestamps, v \in DecValues,
                         t \in DecTypes, i \in DecIdxs }

\* The reader thread right after read_exact filled buf with a record.
InitDecode ==
    /\ child = 1
    /\ \E b \in DecRecords :
         rd = << [pc |-> "decode", src |-> "open", buf |-> b, ev |-> NoEv] >>
    /\ state = State_new
    /\ lock = Free
    /\ poisoned = FALSE
    /\ cl = [c \in Callers |-> IdleCaller]
    /\ api = [op |-> "open", res |-> Ok("unit")]
    /\ applied = {}

\* The match of process_event run on the fields of the record, without the
\* two read_* calls before it: what the decoder gives once it gets that far.
Match(r) ==
    /\ rd[r].pc = "decode"
    /\ Decoded(r, match_ev_type(rd[r].buf[7], rd[r].buf[8], ValueOf(rd[r].buf)))
    /\ UNCHANGED <<child, state, applied, lock, poisoned, cl, api>>

NextDecode ==
    \/ \E r \in Readers : Decode(r)
    \/ \E r \in Readers : Match(r)
    \/ \E r \in Readers : ReaderLock(r)
    \/ \E r \in Readers : ReaderApply(r)

SpecDecode == InitDecode /\ [][NextDecode]_vars

\* ------------------------------------------------------------------ claims

RunningPcs == {"read", "decode", "lock", "apply"}

AllControls ==
    ({"axis"} \X Axis) \cup ({"shoulder"} \X Shoulder) \cup ({"button"} \X Button)

\* The rest value read_* is to give for a control of the given kind.
RestOf(kind) ==
    IF kind = "axis" THEN Ok(I16(0))
    ELSE IF kind = "shoulder" THEN Ok(U16(0))
    ELSE Ok(Bool(FALSE))

\* The caller has returned from a read_* call and holds its result.
Returned(c) == cl[c].pc = "idle" /\ cl[c].kind # "none"

\* C1: a control that no event was ever applied to reads as its rest value
\* (axis 0, shoulder 0, button false): read_* on the current State gives it,
\* and a call that has returned for such a control returned it.
C1_NeverReportedReadsRest ==
    /\ \A q \in AllControls :
         q \notin applied => read(state, q[1], q[2]) = RestOf(q[1])
    /\ \A c \in Callers :
         (Returned(c) /\ <<cl[c].kind, cl[c].ctl>> \notin applied)
             => cl[c].res = RestOf(cl[c].kind)

\* C1 witness: before any open(), a read_axis call returned 0.
C1_Witness ==
    /\ rd = << >>
    /\ \E c \in Callers :
         Returned(c) /\ cl[c].kind = "axis" /\ cl[c].res = Ok(I16(0))

\* C2: open() on a handle that is already open returns AlreadyOpen and leaves
\* the reader threads, the retained handle and the State as they were.
C2_OpenWhenOpenIsRejected ==
    [][(Open /\ child # 0)
          => (/\ api'.res = Err("AlreadyOpen")
              /\ UNCHANGED <<child, rd, state>>)]_vars

\* C3: close() on a handle on which no open() ever succeeded (no thread was
\* ever spawned) returns NotOpen and changes nothing of the handle.
C3_CloseNeverOpened ==
    [][(Close /\ rd = << >>)
          => (/\ api' = [op |-> "close", res |-> Err("NotOpen")]
              /\ UNCHANGED <<child, rd, state, lock, poisoned, cl>>)]_vars

\* C3 witness: close() has returned NotOpen on a never-opened handle.
C3_Witness ==
    /\ rd = << >>
    /\ child = 0
    /\ api = [op |-> "close", res |-> Err("NotOpen")]

\* C4: an open() that cannot acquire the input source returns NoController.
C4_OpenFailureIsNoController ==
    [][(Open /\ api'.res.tag = "Err") => api'.res = Err("NoController")]_vars

\* C5: close() on an open handle stops the reader and puts the handle back in
\* the not-open state (no thread retained).
C5_CloseStopsReader ==
    [][(Close /\ child # 0)
          => (/\ child' = 0
              /\ rd'[child].pc \notin RunningPcs)]_vars

C7_BadRecordIsDropped ==
    [][\A r \in Readers :
         (rd[r].pc = "decode" /\ rd[r].buf[7] = 200)
             => (rd'[r].pc \in RunningPcs /\ state' = state)]_vars

\* C8: a reader leaves the Running state only through a read failure on its
\* input source.
C8_OnlyReadFailureStops ==
    \A r \in Readers : rd[r].pc \in RunningPcs \/ rd[r].src = "failed"

C10_LastWriteWins ==
    [][\A r \in Readers :
         (rd[r].pc = "apply" /\ rd'[r].pc = "read" /\ rd[r].ev.tag = "Ok")
             => LET e == rd[r].ev.val
                    k == CHOOSE q \in touched(rd[r].ev) : TRUE
                IN  /\ read(state', k[1], k[2]) = Ok(e.val)
                    /\ \A q \in AllControls \ {k} :
                         read(state', q[1], q[2]) = read(state, q[1], q[2])
                    /\ \A a \in Axis \ {e.ctl} :
                         get(state'.axes, a) = get(state.axes, a)
                    /\ \A a \in Shoulder \ {e.ctl} :
                         get(state'.shoulders, a) = get(state.shoulders, a)
                    /\ \A a \in Button \ {e.ctl} :
                         get(state'.buttons, a) = get(state.buttons, a)]_vars

\* C10 witness: LX was applied, read, and applied again with another value
\* while RX, L2 and Start keep the values applied to them.
C10_Witness ==
    /\ DOMAIN state.axes = {"LX", "RX"}
    /\ state.axes["RX"] = I16(7)
    /\ DOMAIN state.shoulders = {"L2"}
    /\ DOMAIN state.buttons = {"Start"}
    /\ \E c \in Callers :
         /\ Returned(c)
         /\ cl[c].kind = "axis"
         /\ cl[c].ctl = "LX"
         /\ cl[c].res.val \notin {I16(0), state.axes["LX"]}

\* C11: a read_* call returns what the State held for its control when the
\* call took the lock: from the lock to the return no apply changes the State,
\* so the value is the rest value (nothing applied to the control yet) or the
\* value of the latest apply that completed before, never a mixture.
C11_NoTornRead ==
    [][\A c \in Callers :
         cl[c].pc = "get"
             => /\ state' = state
                /\ cl'[c].pc = "idle"
                      => /\ cl'[c].res = read(state, cl[c].kind, cl[c].ctl)
                         /\ IF <<cl[c].kind, cl[c].ctl>> \in applied
                            THEN \E e \in StoreEvents :
                                   /\ touched(Ok(e)) = {<<cl[c].kind, cl[c].ctl>>}
                                   /\ cl'[c].res = Ok(e.val)
                            ELSE cl'[c].res = RestOf(cl[c].kind)]_vars

\* C11 witness: a read_axis(LX) call is inside its lookup, LX holding an
\* applied value, while the reader waits at the lock with another LX value.
C11_Witness ==
    /\ "LX" \in DOMAIN state.axes
    /\ \E c \in Callers :
         /\ cl[c].pc = "get"
         /\ cl[c].ctl = "LX"
    /\ rd[1].pc = "lock"
    /\ rd[1].ev.tag = "Ok"
    /\ rd[1].ev.val.ctl = "LX"
    /\ rd[1].ev.val.val # state.axes["LX"]

\* The tables of control indices, from the EVENT_STICK_IDX_* and
\* EVENT_BUTTON_IDX_* constants.
StickTable ==
    (EVENT_STICK_IDX_LX :> <<"Axis", "LX">>) @@
    (EVENT_STICK_IDX_LY :> <<"Axis", "LY">>) @@
    (EVENT_STICK_IDX_RX :> <<"Axis", "RX">>) @@
    (EVENT_STICK_IDX_RY :> <<"Axis", "RY">>) @@
    (EVENT_STICK_IDX_L2 :> <<"Shoulder", "L2">>) @@
    (EVENT_STICK_IDX_R2 :> <<"Shoulder", "R2">>) @@
    (EVENT_STICK_IDX_L1 :> <<"Shoulder", "L1">>) @@
    (EVENT_STICK_IDX_R1 :> <<"Shoulder", "R1">>)

ButtonTable ==
    (EVENT_BUTTON_IDX_SELECT :> "Select") @@
    (EVENT_BUTTON_IDX_LEFTSTICK :> "LeftStick") @@
    (EVENT_BUTTON_IDX_RIGHTSTICK :> "RightStick") @@
    (EVENT_BUTTON_IDX_START :> "Start") @@
    (EVENT_BUTTON_IDX_UP :> "Up") @@
    (EVENT_BUTTON_IDX_RIGHT :> "Right") @@
    (EVENT_BUTTON_IDX_DOWN :> "Down") @@
    (EVENT_BUTTON_IDX_LEFT :> "Left") @@
    (EVENT_BUTTON_IDX_L2 :> "L2") @@
    (EVENT_BUTTON_IDX_R2 :> "R2") @@
    (EVENT_BUTTON_IDX_L1 :> "L1") @@
    (EVENT_BUTTON_IDX_R1 :> "R1") @@
    (EVENT_BUTTON_IDX_TRIANGLE :> "Triangle") @@
    (EVENT_BUTTON_IDX_CIRCLE :> "Circle") @@
    (EVENT_BUTTON_IDX_CROSS :> "Cross") @@
    (EVENT_BUTTON_IDX_SQUARE :> "Square") @@
    (EVENT_BUTTON_IDX_PS :> "PS")

\* A u16 read as an i16 (two's complement).
AsI16(v) == IF v < 32768 THEN v ELSE v - 65536

\* The reader r leaves its process_event call in this step.
DecodeStep(r) == rd[r].pc = "decode" /\ rd'[r].pc # "decode"

\* C12: a stick record (type 2) for an axis index 0..3 with raw value v
\* decodes to an Axis event whose value is v read as a two's-complement i16.
C12_StickValueIsTwosComplement ==
    [][\A r \in Readers :
         (/\ DecodeStep(r)
          /\ rd[r].buf[7] = EVENT_TYPE_STICK
          /\ rd[r].buf[8] \in EVENT_STICK_IDX_LX .. EVENT_STICK_IDX_RY)
             => (/\ rd'[r].ev.tag = "Ok"
                 /\ rd'[r].ev.val.kind = "Axis"
                 /\ rd'[r].ev.val.val = I16(AsI16(ValueOf(rd[r].buf))))]_vars

\* C13: a stick record (type 2) with an index of the stick table decodes to
\* an event for the control the table gives: an Axis event for 0..3, a
\* Shoulder event for 12..15.
C13_StickIndexSelectsControl ==
    [][\A r \in Readers :
         (/\ DecodeStep(r)
          /\ rd[r].buf[7] = EVENT_TYPE_STICK
          /\ rd[r].buf[8] \in DOMAIN StickTable)
             => (/\ rd'[r].ev.tag = "Ok"
                 /\ <<rd'[r].ev.val.kind, rd'[r].ev.val.ctl>>
                       = StickTable[rd[r].buf[8]])]_vars

\* C14: a button record (type 1) with an index 0..16 decodes to a Button
\* event for the button the table gives, pressed iff the raw value is not 0.
C14_ButtonIndexAndState ==
    [][\A r \in Readers :
         (/\ DecodeStep(r)
          /\ rd[r].buf[7] = EVENT_TYPE_BUTTON
          /\ rd[r].buf[8] \in DOMAIN ButtonTable)
             => rd'[r].ev = Ok(ButtonEvent(ButtonTable[rd[r].buf[8]],
                                           ValueOf(rd[r].buf) # 0))]_vars

\* C15: the type tag alone classifies a record: tags 2 and 128 give a stick
\* event (Axis or Shoulder), tags 1 and 129 give a Button event (for indices
\* of the tables), and every other tag gives a decode failure, an Err that the
\* reader drops.
C15_TagClassifies ==
    [][\A r \in Readers :
         DecodeStep(r)
             => LET tag == rd[r].buf[7]
                    idx == rd[r].buf[8]
                    out == rd'[r].ev
                IN  /\ (tag \in {2, 128} /\ idx \in DOMAIN StickTable)
                          => (/\ out.tag = "Ok"
                              /\ out.val.kind \in {"Axis", "Shoulder"})
                    /\ (tag \in {1, 129} /\ idx \in DOMAIN ButtonTable)
                          => (/\ out.tag = "Ok"
                              /\ out.val.kind = "Button")
                    /\ tag \notin {1, 2, 128, 129}
                          => out.tag = "Err"]_vars

\* C16: a stick record with an index outside the stick table, and a button
\* record with an index outside 0..16, decodes to a failure and to no event.
C16_UnknownIndexFails ==
    [][\A r \in Readers :
         (/\ DecodeStep(r)
          /\ \/ /\ rd[r].buf[7] = EVENT_TYPE_STICK
                /\ rd[r].buf[8] \notin DOMAIN StickTable
             \/ /\ rd[r].buf[7] = EVENT_TYPE_BUTTON
                /\ rd[r].buf[8] \notin DOMAIN ButtonTable)
             => rd'[r].ev.tag = "Err"]_vars

\* C17: at any time at most one reader thread of the handle is running (in
\* its loop: reading, decoding, at the lock or applying).
C17_AtMostOneReader ==
    Cardinality({ r \in Readers : rd[r].pc \in RunningPcs }) <= 1

\* The threads inside a critical section on the State: a reader in its match
\* on ev, a caller in its lookup.
InCriticalSection ==
    { ReaderT(r) : r \in { x \in Readers : rd[x].pc = "apply" } }
        \cup { CallerT(c) : c \in { x \in Callers : cl[x].pc = "get" } }

\* C18: a thread inside a critical section on the State holds the Mutex, so
\* at most one thread is inside at a time; and the State changes only in a
\* step of a reader that holds the Mutex, a read_* result is taken only in a
\* step of the caller that holds it.
C18_OnlyUnderTheLock ==
    /\ [](\A t \in InCriticalSection : lock = t)
    /\ [](Cardinality(InCriticalSection) <= 1)
    /\ [][/\ state' # state
             => \E r \in Readers : lock = ReaderT(r) /\ rd[r].pc = "apply"
          /\ \A c \in Callers :
               cl'[c].res \notin {cl[c].res, NoRes}
                   => (lock = CallerT(c) /\ cl[c].pc = "get")]_vars

\* C18 witness: one read_* call is inside its lookup while the reader, with an
\* event in hand, and another read_* call both wait for the Mutex.
C18_Witness ==
    /\ \E c \in Callers : cl[c].pc = "get" /\ lock = CallerT(c)
    /\ \E c \in Callers : cl[c].pc = "lock"
    /\ rd[1].pc = "lock"
    /\ rd[1].ev.tag = "Ok"

SameButTimestamp(buf) ==
    { b \in DecRecords : \A i \in 5 .. EVENT_SIZE : b[i] = buf[i] }

\* C20: the timestamp bytes do not influence decoding: a decode step on a
\* record ends as it does on every record that differs from it in bytes 0..4
\* only (the same event, the same failure, the same panic), with the State
\* untouched by the step and the same State once the outcome is applied.
C20_TimestampIgnored ==
    [][\A r \in Readers :
         DecodeStep(r)
             => \A b \in SameButTimestamp(rd[r].buf) :
                  /\ process_event(b) = process_event(rd[r].buf)
                  /\ apply(state, process_event(b))
                        = apply(state, process_event(rd[r].buf))
                  /\ Decode(r)
                        => /\ rd'[r].pc = IF process_event(b).tag = "Panic"
                                          THEN "panicked" ELSE "lock"
                           /\ rd'[r].ev = IF process_event(b).tag = "Panic"
                                          THEN NoEv ELSE process_event(b)
                           /\ state' = state
                  /\ Match(r)
                        => /\ rd'[r].ev = match_ev_type(b[7], b[8], ValueOf(b))
                           /\ state' = state]_vars

\* C20 witness: the reader has run process_event on a record, which ended in
\* the panic it ends in for every timestamp, and the State is untouched.
C20_Witness ==
    /\ rd[1].pc = "panicked"
    /\ rd[1].src = "open"
    /\ rd[1].buf = NoBuf
    /\ state = State_new
    /\ applied = {}

====
